---- MODULE Spec2Model ----
(***************************************************************************)
(* Language-detection command-line clients: the raw-HTTP variant           *)
(* (rest-client.py) and the vendor-SDK variant (sdk-client.py).            *)
(*                                                                         *)
(* Both programs are run side by side on the same environment, the same    *)
(* input lines and the same service outcome per line, so that statements   *)
(* about "both variants" and about their equivalence can be checked.       *)
(*                                                                         *)
(* A text is a run-length encoded string: a sequence of runs <<c, n>>      *)
(* (character c repeated n >= 1 times, adjacent runs of different          *)
(* characters), so that texts around the 5000 character limit stay small.  *)
(* Environment values are plain sequences of characters.                   *)
(*                                                                         *)
(* Exceptions are those deriving from Python's Exception class; signals    *)
(* that end the process from outside (KeyboardInterrupt, SystemExit) are   *)
(* not part of the model.                                                  *)
(***************************************************************************)
EXTENDS Integers, Sequences, FiniteSets, TLC

\* ------------------------------------------------------------------ bounds
MaxPad   == 1      \* most whitespace characters on either side of a line
MaxLines == 2      \* most lines read from standard input in a run
MaxDocs  == 2      \* most entries of a response's documents array

\* ------------------------------------------------------- program constants
MAX_TEXT_LENGTH == 5000

Variants == {"rest", "sdk"}

\* ------------------------------------------------------------------- texts
Whitespace == {" ", "\t"}

RECURSIVE TLen(_)
\* len(text)
TLen(t) == IF t = <<>> THEN 0 ELSE t[1][2] + TLen(Tail(t))

RECURSIVE Canon(_)
\* The canonical run-length form: no empty run, adjacent runs merged.
Canon(t) ==
    IF t = <<>> THEN <<>>
    ELSE IF t[1][2] = 0 THEN Canon(Tail(t))
    ELSE IF Len(t) >= 2 /\ t[2][1] = t[1][1]
         THEN Canon(<<<<t[1][1], t[1][2] + t[2][2]>>>> \o Tail(Tail(t)))
    ELSE <<t[1]>> \o Canon(Tail(t))

RECURSIVE LStrip(_)
LStrip(t) ==
    IF t = <<>> THEN <<>>
    ELSE IF t[1][1] \in Whitespace THEN LStrip(Tail(t))
    ELSE t

RECURSIVE RStrip(_)
RStrip(t) ==
    IF t = <<>> THEN <<>>
    ELSE IF t[Len(t)][1] \in Whitespace THEN RStrip(SubSeq(t, 1, Len(t) - 1))
    ELSE t

\* str.strip()
Strip(t) == RStrip(LStrip(t))

LowerChar(c) ==
    CASE c = "Q" -> "q"
      [] c = "U" -> "u"
      [] c = "I" -> "i"
      [] c = "T" -> "t"
      [] c = "H" -> "h"
      [] OTHER   -> c

\* str.lower()
Lower(t) == Canon([i \in DOMAIN t |-> <<LowerChar(t[i][1]), t[i][2]>>])

\* The literal 'quit'
QuitWord == <<<<"q", 1>>, <<"u", 1>>, <<"i", 1>>, <<"t", 1>>>>

Pad(n) == IF n = 0 THEN <<>> ELSE <<<<" ", n>>>>

\* Words typed with and without whitespace around them: "quit", nothing, and
\* a word of exactly the longest length.
PaddedWords ==
    { QuitWord,
      <<>>,
      <<<<"x", MAX_TEXT_LENGTH>>>> }

\* Words typed as they are: "QUIT", "Hi", and a word one character too long.
PlainWords ==
    { <<<<"Q", 1>>, <<"U", 1>>, <<"I", 1>>, <<"T", 1>>>>,
      <<<<"H", 1>>, <<"i", 1>>>>,
      <<<<"x", MAX_TEXT_LENGTH + 1>>>> }

\* The lines a user may type.
Texts ==
    { Canon(Pad(l) \o w \o Pad(r)) : l \in 0..MaxPad, r \in 0..MaxPad, w \in PaddedWords }
    \cup PlainWords

\* What one call of input() yields: a line, or EOFError at the end of input.
Lines == [eof : {FALSE}, text : Texts] \cup {[eof |-> TRUE, text |-> <<>>]}

\* ------------------------------------------------------------- environment
HttpsPrefix == <<"h", "t", "t", "p", "s", ":", "/", "/">>

\* str.startswith
StartsWith(s, p) == Len(s) >= Len(p) /\ SubSeq(s, 1, Len(p)) = p

Absent == [set |-> FALSE, val |-> <<>>]
Value(s) == [set |-> TRUE, val |-> s]

Endpoints ==
    { Absent,
      Value(<<>>),
      Value(<<"h", "t", "t", "p", ":", "/", "/", "a">>),
      Value(HttpsPrefix \o <<"a">>),
      Value(HttpsPrefix \o <<"a", "/">>) }

Keys == { Absent, Value(<<>>), Value(<<"k">>) }

\* ------------------------------------------------------------- exceptions
NoExc == [type |-> "none", text |-> "", status |-> 0, body |-> "", cause |-> "none"]

Exc(type, text) == [type |-> type, text |-> text, status |-> 0, body |-> "", cause |-> "none"]

\* ---------------------------------------------------- the remote service
StatusCodes == {400, 503}

DocSeqs == UNION { [1..n -> {"named", "malformed"}] : n \in 0..MaxDocs }

Unset == [kind |-> "unset", status |-> 0, body |-> "", docs |-> <<>>]

\* What the service does with one request: a 200 response with a documents
\* array, a 200 response whose body is not JSON, a response with another
\* status, a failure to connect, or a failure while the response is read.
Outcomes ==
    [kind : {"ok"}, status : {200}, body : {"json"}, docs : DocSeqs]
    \cup [kind : {"badjson"}, status : {200}, body : {"not json"}, docs : {<<>>}]
    \cup [kind : {"status"}, status : StatusCodes, body : {"Error message"}, docs : {<<>>}]
    \cup [kind : {"connect", "http"}, status : {0}, body : {""}, docs : {<<>>}]

VARIABLES
    env,        \* the process environment: AI_SERVICE_ENDPOINT, AI_SERVICE_KEY
    lineNo,     \* lines offered on standard input so far
    line,       \* the current line (what input() yields for it)
    svc,        \* the service's outcome for the current line, once requested
    pc,         \* each variant's position in main
    cfg,        \* each variant's loaded configuration
    userText,   \* each variant's userText / user_text
    pos,        \* lines each variant has read
    trace,      \* each variant's events since its last prompt
    sent,       \* texts each variant handed to its client since its last prompt
    lastExc,    \* the exception each variant's main caught or let through last
    openConns   \* connections the raw-HTTP variant opened and has not closed

vars == <<env, lineNo, line, svc, pc, cfg, userText, pos, trace, sent, lastExc, openConns>>

NoCfg == [endpoint |-> <<>>, key |-> <<>>]

Init ==
    /\ env \in [endpoint : Endpoints, key : Keys]
    /\ lineNo = 0
    /\ line = [eof |-> FALSE, text |-> <<>>]
    /\ svc = Unset
    /\ pc = [v \in Variants |-> "start"]
    /\ cfg = [v \in Variants |-> NoCfg]
    /\ userText = [v \in Variants |-> <<>>]
    /\ pos = [v \in Variants |-> 0]
    /\ trace = [v \in Variants |-> <<>>]
    /\ sent = [v \in Variants |-> <<>>]
    /\ lastExc = [v \in Variants |-> NoExc]
    /\ openConns = 0

\* ------------------------------------------------- configuration loading
\* validate_configuration without the test of the scheme.
validate_configuration_NoScheme(e) ==
    IF (~e.endpoint.set \/ e.endpoint.val = <<>>) \/ (~e.key.set \/ e.key.val = <<>>)
    THEN [ok |-> FALSE, cfg |-> NoCfg,
          exc |-> Exc("ConfigurationError", "Missing required environment variables")]
    ELSE [ok |-> TRUE, cfg |-> [endpoint |-> e.endpoint.val, key |-> e.key.val],
          exc |-> NoExc]

\* rest-client.py validate_configuration: the endpoint and key, or
\* ConfigurationError.
validate_configuration(e) ==
    IF (~e.endpoint.set \/ e.endpoint.val = <<>>) \/ (~e.key.set \/ e.key.val = <<>>)
    THEN [ok |-> FALSE, cfg |-> NoCfg,
          exc |-> Exc("ConfigurationError", "Missing required environment variables")]
    ELSE IF ~StartsWith(e.endpoint.val, HttpsPrefix)
    THEN [ok |-> FALSE, cfg |-> NoCfg,
          exc |-> Exc("ConfigurationError", "AI_SERVICE_ENDPOINT must start with 'https://'")]
    ELSE [ok |-> TRUE, cfg |-> [endpoint |-> e.endpoint.val, key |-> e.key.val],
          exc |-> NoExc]

\* Config.from_env keeping the endpoint without its trailing "/".
Config_from_env_Stripped(e) ==
    IF (~e.endpoint.set \/ e.endpoint.val = <<>>) \/ (~e.key.set \/ e.key.val = <<>>)
    THEN [ok |-> FALSE, cfg |-> NoCfg,
          exc |-> Exc("ConfigurationError", "Missing required environment variables")]
    ELSE IF ~StartsWith(e.endpoint.val, HttpsPrefix)
    THEN [ok |-> FALSE, cfg |-> NoCfg,
          exc |-> Exc("ConfigurationError", "AI_SERVICE_ENDPOINT must start with 'https://'")]
    ELSE [ok |-> TRUE,
          cfg |-> [endpoint |-> IF e.endpoint.val[Len(e.endpoint.val)] = "/"
                                THEN SubSeq(e.endpoint.val, 1, Len(e.endpoint.val) - 1)
                                ELSE e.endpoint.val,
                   key |-> e.key.val],
          exc |-> NoExc]

\* sdk-client.py Config.from_env
Config_from_env(e) ==
    IF (~e.endpoint.set \/ e.endpoint.val = <<>>) \/ (~e.key.set \/ e.key.val = <<>>)
    THEN [ok |-> FALSE, cfg |-> NoCfg,
          exc |-> Exc("ConfigurationError", "Missing required environment variables")]
    ELSE IF ~StartsWith(e.endpoint.val, HttpsPrefix)
    THEN [ok |-> FALSE, cfg |-> NoCfg,
          exc |-> Exc("ConfigurationError", "AI_SERVICE_ENDPOINT must start with 'https://'")]
    ELSE [ok |-> TRUE, cfg |-> [endpoint |-> e.endpoint.val, key |-> e.key.val],
          exc |-> NoExc]

LoadOf(v, e) == IF v = "rest" THEN validate_configuration(e) ELSE Config_from_env(e)

\* main's outer handlers: print, then re-raise.
OuterHandler(e) ==
    IF e.type = "ConfigurationError" THEN "Configuration error" ELSE "Fatal error"

\* -------------------------------------------------------- input validation
\* validate_text without the test of the length.
validate_text_NoLimit(t) ==
    IF Strip(t) = <<>> THEN Exc("InputError", "Text cannot be empty")
    ELSE NoExc

\* rest-client.py validate_text
validate_text(t) ==
    IF Strip(t) = <<>> THEN Exc("InputError", "Text cannot be empty")
    ELSE IF TLen(t) > 5000 THEN Exc("InputError", "Text length exceeds maximum")
    ELSE NoExc

\* TextValidator.validate rejecting a text of exactly MAX_TEXT_LENGTH.
TextValidator_validate_Inclusive(t) ==
    IF Strip(t) = <<>> THEN Exc("InputError", "Text cannot be empty")
    ELSE IF TLen(t) >= MAX_TEXT_LENGTH THEN Exc("InputError", "Text length exceeds maximum")
    ELSE NoExc

\* TextValidator.validate testing the text untrimmed for emptiness.
TextValidator_validate_NoStrip(t) ==
    IF t = <<>> THEN Exc("InputError", "Text cannot be empty")
    ELSE IF TLen(t) > MAX_TEXT_LENGTH THEN Exc("InputError", "Text length exceeds maximum")
    ELSE NoExc

\* sdk-client.py TextValidator.validate
TextValidator_validate(t) ==
    IF Strip(t) = <<>> THEN Exc("InputError", "Text cannot be empty")
    ELSE IF TLen(t) > MAX_TEXT_LENGTH THEN Exc("InputError", "Text length exceeds maximum")
    ELSE NoExc

ValidateOf(v, t) == IF v = "rest" THEN validate_text(t) ELSE TextValidator_validate(t)

\* ------------------------------------------------------------ the sentinel
\* The comparison without lower().
IsSentinel_CaseSensitive(t) == t = QuitWord

\* userText.lower() != 'quit', negated: the loop's test and the test after
\* input().
IsSentinel(t) == Lower(t) = QuitWord

\* ------------------------------------------------- the loop's own handlers
\* The loop's handlers with the last one raising again.
RestMainHandler_Reraise(e) ==
    CASE e.type = "InputError" -> [print |-> "Input error", continue |-> TRUE]
      [] e.type = "APIError"   -> [print |-> "API error", continue |-> TRUE]
      [] OTHER                 -> [print |-> "Unexpected error", continue |-> FALSE]

\* rest-client.py main, the except clauses inside the loop: what is printed,
\* and whether the loop goes on (continue).
RestMainHandler(e) ==
    CASE e.type = "InputError" -> [print |-> "Input error", continue |-> TRUE]
      [] e.type = "APIError"   -> [print |-> "API error", continue |-> TRUE]
      [] OTHER                 -> [print |-> "Unexpected error", continue |-> TRUE]

\* sdk-client.py main, the except clauses inside the loop.
SdkMainHandler(e) ==
    CASE e.type = "InputError" -> [print |-> "Input error", continue |-> TRUE]
      [] e.type = "AzureError" -> [print |-> "Azure service error", continue |-> TRUE]
      [] OTHER                 -> [print |-> "Unexpected error", continue |-> TRUE]

MainHandler(v, e) == IF v = "rest" THEN RestMainHandler(e) ELSE SdkMainHandler(e)

\* Exception e reaches main's loop in variant v, tr being the events so far:
\* the matching handler prints and continues; an exception a handler lets
\* through reaches the outer handler, which prints and re-raises.
Caught(v, e, tr) ==
    LET h == MainHandler(v, e) IN
    /\ lastExc' = [lastExc EXCEPT ![v] = e]
    /\ trace' = [trace EXCEPT ![v] =
                    IF h.continue THEN Append(tr, h.print)
                    ELSE tr \o <<h.print, OuterHandler(e)>>]
    /\ pc' = [pc EXCEPT ![v] = IF h.continue THEN "loop" ELSE "raised"]

\* --------------------------------------------------- the raw-HTTP client
\* GetLanguage without its last except clause.
GetLanguageHandler_Leaky(e) ==
    CASE e.type = "JSONDecodeError" ->
            [type |-> "APIError", text |-> "Failed to parse API response",
             status |-> e.status, body |-> e.body, cause |-> e.type]
      [] e.type = "HTTPException" ->
            [type |-> "APIError", text |-> "HTTP error occurred",
             status |-> e.status, body |-> e.body, cause |-> e.type]
      [] OTHER -> e

\* GetLanguage's except clauses: every exception leaves as APIError.  The
\* new message embeds the old one, so a status and body stay in it.
GetLanguageHandler(e) ==
    [type   |-> "APIError",
     text   |-> CASE e.type = "JSONDecodeError" -> "Failed to parse API response"
                  [] e.type = "HTTPException"   -> "HTTP error occurred"
                  [] OTHER                      -> "Unexpected error during API call",
     status |-> e.status,
     body   |-> e.body,
     cause  |-> e.type]

RECURSIVE FirstMalformed(_, _)
\* The index of the first entry without detectedLanguage.name from i on, or 0.
FirstMalformed(docs, i) ==
    IF i > Len(docs) THEN 0
    ELSE IF docs[i] = "malformed" THEN i
    ELSE FirstMalformed(docs, i + 1)

\* The response handling printing each language twice.
ProcessResponse_PrintTwice(o) ==
    CASE o.kind = "http" ->
            [events |-> <<>>, exc |-> Exc("HTTPException", "remote end closed connection")]
      [] o.status # 200 ->
            [events |-> <<>>,
             exc |-> [type |-> "APIError", text |-> "API returned status",
                      status |-> o.status, body |-> o.body, cause |-> "none"]]
      [] o.kind = "badjson" ->
            [events |-> <<>>, exc |-> Exc("JSONDecodeError", "Expecting value")]
      [] OTHER ->
            LET k == FirstMalformed(o.docs, 1)
                n == IF k = 0 THEN Len(o.docs) ELSE k - 1
            IN  [events |-> <<"ResponseJSON">> \o [i \in 1..(2 * n) |-> "Language"],
                 exc |-> IF k = 0 THEN NoExc ELSE Exc("KeyError", "detectedLanguage")]

\* GetLanguage from getresponse() to the end of the if: the events printed
\* and the exception raised, if any.
ProcessResponse(o) ==
    CASE o.kind = "http" ->
            [events |-> <<>>, exc |-> Exc("HTTPException", "remote end closed connection")]
      [] o.status # 200 ->
            [events |-> <<>>,
             exc |-> [type |-> "APIError", text |-> "API returned status",
                      status |-> o.status, body |-> o.body, cause |-> "none"]]
      [] o.kind = "badjson" ->
            [events |-> <<>>, exc |-> Exc("JSONDecodeError", "Expecting value")]
      [] OTHER ->
            LET k == FirstMalformed(o.docs, 1)
                n == IF k = 0 THEN Len(o.docs) ELSE k - 1
            IN  [events |-> <<"ResponseJSON">> \o [i \in 1..n |-> "Language"],
                 exc |-> IF k = 0 THEN NoExc ELSE Exc("KeyError", "detectedLanguage")]

\* --------------------------------------------------- the vendor-SDK client
\* TextAnalyticsClient.detect_language as the vendor documents it: a list of
\* results, one per document, or an AzureError for a failed request.
SdkClient(o) ==
    IF o.kind = "ok" THEN [docs |-> o.docs, exc |-> NoExc]
    ELSE [docs |-> <<>>,
          exc |-> [type |-> "AzureError", text |-> o.kind, status |-> o.status,
                   body |-> o.body, cause |-> "none"]]

\* LanguageDetector.detect_language: the first result's language name, an
\* AzureError re-raised as AzureError, any other exception as it is.
detect_language(o) ==
    LET r == SdkClient(o) IN
    IF r.exc # NoExc
    THEN [ok |-> FALSE,
          exc |-> [type |-> "AzureError", text |-> "Failed to detect language",
                   status |-> r.exc.status, body |-> r.exc.body, cause |-> r.exc.type]]
    ELSE IF r.docs = <<>> THEN [ok |-> FALSE, exc |-> Exc("IndexError", "list index out of range")]
    ELSE IF r.docs[1] = "malformed"
    THEN [ok |-> FALSE, exc |-> Exc("AttributeError", "primary_language")]
    ELSE [ok |-> TRUE, exc |-> NoExc]

\* ------------------------------------------------------------ the actions
\* Standard input offers its next line once every running variant has dealt
\* with the current one.
Feed ==
    /\ lineNo < MaxLines
    /\ \E v \in Variants : pc[v] = "input"
    /\ \A v \in Variants : pc[v] \in {"done", "raised"} \/ (pc[v] = "input" /\ pos[v] = lineNo)
    /\ lineNo' = lineNo + 1
    /\ line' \in Lines
    /\ svc' = Unset
    /\ UNCHANGED <<env, pc, cfg, userText, pos, trace, sent, lastExc, openConns>>

\* main up to the loop: load the configuration; ConfigurationError is
\* printed by the outer handler and raised again.
LoadConfig(v) ==
    /\ pc[v] = "start"
    /\ LET r == LoadOf(v, env) IN
       IF r.ok
       THEN /\ cfg' = [cfg EXCEPT ![v] = r.cfg]
            /\ pc' = [pc EXCEPT ![v] = "loop"]
            /\ UNCHANGED <<trace, lastExc>>
       ELSE /\ trace' = [trace EXCEPT ![v] = <<OuterHandler(r.exc)>>]
            /\ lastExc' = [lastExc EXCEPT ![v] = r.exc]
            /\ pc' = [pc EXCEPT ![v] = "raised"]
            /\ UNCHANGED cfg
    /\ UNCHANGED <<env, lineNo, line, svc, userText, pos, sent, openConns>>

\* while userText.lower() != 'quit': leave the loop, or start the next
\* iteration (whose events, dispatched texts and exception start empty).
LoopTest(v) ==
    /\ pc[v] = "loop"
    /\ IF IsSentinel(userText[v])
       THEN /\ pc' = [pc EXCEPT ![v] = "done"]
            /\ UNCHANGED <<trace, sent, lastExc>>
       ELSE /\ pc' = [pc EXCEPT ![v] = "input"]
            /\ trace' = [trace EXCEPT ![v] = <<>>]
            /\ sent' = [sent EXCEPT ![v] = <<>>]
            /\ lastExc' = [lastExc EXCEPT ![v] = NoExc]
    /\ UNCHANGED <<env, lineNo, line, svc, cfg, userText, pos, openConns>>

\* userText = input(prompt), and the test that follows it.
ReadLine(v) ==
    /\ pc[v] = "input"
    /\ pos[v] < lineNo
    /\ pos' = [pos EXCEPT ![v] = @ + 1]
    /\ IF line.eof
       THEN /\ Caught(v, Exc("EOFError", "EOF when reading a line"), <<"Prompt">>)
            /\ UNCHANGED userText
       ELSE /\ userText' = [userText EXCEPT ![v] = line.text]
            /\ trace' = [trace EXCEPT ![v] = <<"Prompt">>]
            /\ lastExc' = [lastExc EXCEPT ![v] = NoExc]
            /\ pc' = [pc EXCEPT ![v] = IF IsSentinel(line.text) THEN "loop" ELSE "validate"]
    /\ UNCHANGED <<env, lineNo, line, svc, cfg, sent, openConns>>

\* validate_text(userText) / TextValidator.validate(user_text)
Validate(v) ==
    /\ pc[v] = "validate"
    /\ LET e == ValidateOf(v, userText[v]) IN
       IF e = NoExc
       THEN /\ trace' = [trace EXCEPT ![v] = Append(@, "Validated")]
            /\ pc' = [pc EXCEPT ![v] = "call"]
            /\ UNCHANGED lastExc
       ELSE Caught(v, e, trace[v])
    /\ UNCHANGED <<env, lineNo, line, svc, cfg, userText, pos, sent, openConns>>

\* The service's outcome for the current line: chosen when the first variant
\* asks, the same for the other.
OutcomeChoices == IF svc.kind = "unset" THEN Outcomes ELSE {svc}

\* GetLanguage up to conn.request: print the request, open the connection
\* and send.
GL_Request ==
    /\ pc["rest"] = "call"
    /\ \E o \in OutcomeChoices :
        /\ svc' = o
        /\ sent' = [sent EXCEPT !["rest"] = Append(@, userText["rest"])]
        /\ IF o.kind = "connect"
           THEN /\ Caught("rest", GetLanguageHandler(Exc("OSError", "connection failed")),
                          Append(trace["rest"], "RequestJSON"))
                /\ UNCHANGED openConns
           ELSE /\ openConns' = openConns + 1
                /\ trace' = [trace EXCEPT !["rest"] = Append(@, "RequestJSON")]
                /\ pc' = [pc EXCEPT !["rest"] = "gl_response"]
                /\ UNCHANGED lastExc
    /\ UNCHANGED <<env, lineNo, line, cfg, userText, pos>>

\* GetLanguage from conn.getresponse() to the end of the if statement.
GL_Response ==
    /\ pc["rest"] = "gl_response"
    /\ LET r == ProcessResponse(svc) IN
       IF r.exc = NoExc
       THEN /\ trace' = [trace EXCEPT !["rest"] = @ \o r.events]
            /\ pc' = [pc EXCEPT !["rest"] = "gl_close"]
            /\ UNCHANGED lastExc
       ELSE Caught("rest", GetLanguageHandler(r.exc), trace["rest"] \o r.events)
    /\ UNCHANGED <<env, lineNo, line, svc, cfg, userText, pos, sent, openConns>>

\* conn.close()
GL_Close ==
    /\ pc["rest"] = "gl_close"
    /\ openConns' = openConns - 1
    /\ trace' = [trace EXCEPT !["rest"] = Append(@, "Close")]
    /\ pc' = [pc EXCEPT !["rest"] = "loop"]
    /\ UNCHANGED <<env, lineNo, line, svc, cfg, userText, pos, sent, lastExc>>

\* language = detector.detect_language(user_text); print('Language:', language)
SdkDetect ==
    /\ pc["sdk"] = "call"
    /\ \E o \in OutcomeChoices :
        /\ svc' = o
        /\ sent' = [sent EXCEPT !["sdk"] = Append(@, userText["sdk"])]
        /\ LET r == detect_language(o) IN
           IF r.ok
           THEN /\ trace' = [trace EXCEPT !["sdk"] = Append(@, "Language")]
                /\ pc' = [pc EXCEPT !["sdk"] = "loop"]
                /\ UNCHANGED lastExc
           ELSE Caught("sdk", r.exc, trace["sdk"])
    /\ UNCHANGED <<env, lineNo, line, cfg, userText, pos, openConns>>

Next ==
    \/ Feed
    \/ \E v \in Variants : LoadConfig(v)
    \/ \E v \in Variants : LoopTest(v)
    \/ \E v \in Variants : ReadLine(v)
    \/ \E v \in Variants : Validate(v)
    \/ GL_Request
    \/ GL_Response
    \/ GL_Close
    \/ SdkDetect

Spec == Init /\ [][Next]_vars

\* ================================================================== claims
Events(tr) == { tr[i] : i \in DOMAIN tr }

CountEv(tr, e) == Cardinality({ i \in DOMAIN tr : tr[i] = e })

Last(tr) == tr[Len(tr)]

ErrorEvents == {"Input error", "API error", "Azure service error", "Unexpected error"}

\* Variant v has read the current line and is in, or at the end of, the
\* iteration that deals with it.
Handling(v) ==
    /\ lineNo > 0
    /\ pos[v] = lineNo
    /\ pc[v] \in {"validate", "call", "gl_response", "gl_close", "loop", "done"}

\* Variant v has finished the iteration of the current line.
Finished(v) == Handling(v) /\ pc[v] \in {"loop", "done"}

\* ------------------------------------------------------------------- C1
\* C1 as stated: a line whose trimmed, lower-cased value is "quit" ends the
\* loop on that line, unvalidated and undispatched.
C1_TrimmedSentinelEndsLoop ==
    \A v \in Variants :
        (Handling(v) /\ ~line.eof /\ Lower(Strip(line.text)) = QuitWord)
        => (pc[v] \in {"loop", "done"} /\ trace[v] = <<"Prompt">> /\ sent[v] = <<>>)

C1_Inv ==
    \A v \in Variants :
        (Handling(v) /\ ~line.eof /\ Lower(line.text) = QuitWord)
        => (pc[v] \in {"loop", "done"} /\ trace[v] = <<"Prompt">> /\ sent[v] = <<>>)

C1_Step ==
    \A v \in Variants :
        (pc[v] \in {"loop", "done"} /\ Lower(userText[v]) = QuitWord)
        => /\ pc'[v] \in {pc[v], "done"}
           /\ pos'[v] = pos[v]
           /\ trace'[v] = trace[v]
           /\ sent'[v] = sent[v]

\* C1, amended: a line whose lower-cased value, untrimmed, is "quit" ends the
\* loop on that line: it is neither validated nor sent to the client, main
\* returns, and no further prompt is issued.
C1_SentinelEndsLoop == []C1_Inv /\ [][C1_Step]_vars

\* Both variants have returned on the line "QUIT".
C1_Witness ==
    /\ \A v \in Variants : pc[v] = "done" /\ Handling(v)
    /\ ~line.eof /\ line.text # QuitWord /\ Lower(line.text) = QuitWord

\* ------------------------------------------------------------------- C2
\* C2: the client is invoked only with text that passed validation; a line
\* that is empty after trimming or longer than 5000 characters gets an input
\* error, no client invocation and a new prompt; every dispatched text has
\* trimmed length in (0, 5000].
C2_OnlyValidTextDispatched ==
    \A v \in Variants :
        /\ \A i \in DOMAIN sent[v] :
              /\ TLen(Strip(sent[v][i])) > 0
              /\ TLen(Strip(sent[v][i])) <= 5000
              /\ "Validated" \in Events(trace[v])
        /\ (Handling(v) /\ ~line.eof /\ Lower(line.text) # QuitWord
              /\ (TLen(Strip(line.text)) = 0 \/ TLen(line.text) > 5000))
           => /\ sent[v] = <<>>
              /\ pc[v] \in {"validate", "loop"}
              /\ pc[v] = "loop" =>
                    /\ trace[v] = <<"Prompt", "Input error">>
                    /\ lastExc[v].type = "InputError"
                    /\ Lower(userText[v]) # QuitWord

\* Both variants have rejected a line of more than 5000 characters.
C2_Witness ==
    /\ ~line.eof /\ TLen(line.text) > 5000
    /\ \A v \in Variants :
          Finished(v) /\ trace[v] = <<"Prompt", "Input error">> /\ sent[v] = <<>>

\* ------------------------------------------------------------------- C3
C3_Inv ==
    \A v \in Variants :
        /\ pc[v] = "raised" => (pos[v] = 0 /\ cfg[v] = NoCfg)
        /\ pc[v] = "done" => (Lower(userText[v]) = QuitWord /\ lastExc[v] = NoExc)
        /\ (pos[v] > 0 /\ lastExc[v] # NoExc)
           => /\ pc[v] = "loop"
              /\ Last(trace[v]) \in ErrorEvents
              /\ Lower(userText[v]) # QuitWord

C3_Step ==
    \A v \in Variants :
        (pos[v] > 0 /\ lastExc[v] # NoExc /\ pc'[v] # pc[v]) => pc'[v] = "input"

C4_ConfigFailureIsFatal ==
    (~env.endpoint.set \/ ~env.key.set \/ ~StartsWith(env.endpoint.val, HttpsPrefix))
    => \A v \in Variants :
          /\ pc[v] \in {"start", "raised"}
          /\ pos[v] = 0
          /\ sent[v] = <<>>
          /\ "Prompt" \notin Events(trace[v])
          /\ pc[v] = "raised" =>
                /\ trace[v] = <<"Configuration error">>
                /\ lastExc[v].type = "ConfigurationError"

\* Both variants have raised on an endpoint that is set but not https.
C4_Witness ==
    /\ env.endpoint.set /\ env.endpoint.val # <<>> /\ env.key.set /\ env.key.val # <<>>
    /\ \A v \in Variants : pc[v] = "raised"

\* ------------------------------------------------------------------- C5
C5_Inv ==
    \A v \in Variants :
        /\ Len(sent[v]) <= 1
        /\ (Finished(v) /\ ~line.eof) =>
              IF Lower(line.text) = QuitWord
              THEN trace[v] = <<"Prompt">> /\ sent[v] = <<>>
              ELSE IF TLen(Strip(line.text)) > 0 /\ TLen(line.text) <= 5000
              THEN /\ sent[v] = <<line.text>>
                   /\ (svc.kind = "ok" /\ svc.docs = <<"named">>)
                      => CountEv(trace[v], "Language") = 1
              ELSE sent[v] = <<>>

C5_Step ==
    \A v \in Variants :
        pc[v] = "done" =>
            /\ pc'[v] = "done"
            /\ pos'[v] = pos[v]
            /\ trace'[v] = trace[v]
            /\ sent'[v] = sent[v]

\* C5: each line that is not the sentinel and passes validation causes
\* exactly one client invocation and, when the service answers with one
\* detected language, exactly one "Language" output; once the sentinel (a
\* line whose lower-cased value is "quit") is read there are no further
\* prompts, client invocations or outputs.
C5_OneCallOneLanguagePerLine == []C5_Inv /\ [][C5_Step]_vars

\* Both variants have dispatched the current line once and printed one
\* language for it.
C5_Witness ==
    /\ svc.kind = "ok" /\ svc.docs = <<"named">>
    /\ \A v \in Variants :
          /\ Finished(v)
          /\ sent[v] = <<line.text>>
          /\ CountEv(trace[v], "Language") = 1

\* ------------------------------------------------------------------- C6
\* Variant v has validated the current line.
ValidationDone(v) ==
    Handling(v) /\ ~line.eof /\ Events(trace[v]) \cap {"Validated", "Input error"} # {}

\* C6 as stated: validate succeeds exactly for the texts whose trimmed length
\* is in (0, 5000].
C6_ValidateByTrimmedLength ==
    \A v \in Variants :
        ValidationDone(v) =>
            ("Validated" \in Events(trace[v])
                <=> (TLen(Strip(line.text)) > 0 /\ TLen(Strip(line.text)) <= 5000))

C6_Inv ==
    \A v \in Variants :
        ValidationDone(v) =>
            LET accepted == TLen(Strip(line.text)) > 0 /\ TLen(line.text) <= 5000 IN
            /\ "Validated" \in Events(trace[v]) <=> accepted
            /\ "Input error" \in Events(trace[v]) <=> ~accepted
            /\ ~accepted => lastExc[v].type = "InputError"

C6_Step ==
    \A v \in Variants :
        (pc[v] = "validate" /\ pc'[v] # "validate")
        => /\ userText' = userText
           /\ cfg' = cfg
           /\ env' = env
           /\ sent' = sent
           /\ pos' = pos
           /\ openConns' = openConns
           /\ <<line, lineNo, svc>>' = <<line, lineNo, svc>>

\* C6, amended: validate succeeds for every text that is non-empty after
\* trimming and whose untrimmed length is at most 5000; it fails with
\* InputError for every text that is empty after trimming or whose untrimmed
\* length exceeds 5000; it changes no state.
C6_ValidateByRawLength == []C6_Inv /\ [][C6_Step]_vars

\* Both variants have rejected a line of 5000 characters plus surrounding
\* whitespace.
C6_Witness ==
    /\ ~line.eof
    /\ TLen(Strip(line.text)) = 5000
    /\ TLen(line.text) > 5000
    /\ \A v \in Variants : Finished(v) /\ Last(trace[v]) = "Input error"

\* ------------------------------------------------------------------- C7
\* C7: load fails with ConfigurationError when the endpoint or the key is
\* absent or empty and when the endpoint does not start with "https://";
\* otherwise it returns exactly the endpoint and key supplied, and they stay
\* so for every later iteration and client call.
C7_LoadReturnsSuppliedValues ==
    \A v \in Variants :
        pc[v] # "start" =>
            IF \/ ~env.endpoint.set \/ env.endpoint.val = <<>>
               \/ ~env.key.set \/ env.key.val = <<>>
               \/ ~StartsWith(env.endpoint.val, HttpsPrefix)
            THEN pc[v] = "raised" /\ lastExc[v].type = "ConfigurationError"
            ELSE /\ pc[v] # "raised"
                 /\ cfg[v].endpoint = env.endpoint.val
                 /\ cfg[v].key = env.key.val

\* Both clients are called on the second line with an endpoint that ends
\* in "/".
C7_Witness ==
    /\ env.endpoint.val = HttpsPrefix \o <<"a", "/">>
    /\ \A v \in Variants : pos[v] = 2 /\ sent[v] # <<>>
    /\ pc["rest"] = "gl_response"

\* ------------------------------------------------------------------- C8
\* The raw-HTTP variant's call of GetLanguage for the current line has failed.
RestCallFailed ==
    Finished("rest") /\ sent["rest"] # <<>> /\ lastExc["rest"] # NoExc

C8_FailureIsAPIError ==
    /\ lastExc["rest"].type = "APIError"
    /\ svc.kind = "status" =>
          (lastExc["rest"].status = svc.status /\ lastExc["rest"].body = svc.body)
    /\ svc.kind = "badjson" => lastExc["rest"].cause = "JSONDecodeError"
    /\ svc.kind = "http" => lastExc["rest"].cause = "HTTPException"
    /\ svc.kind = "connect" => lastExc["rest"].cause = "OSError"
    /\ Last(trace["rest"]) = "API error"

\* A call fails exactly on these outcomes of the service.
C8_FailingOutcome ==
    svc.kind \in {"status", "badjson", "http", "connect"}
    \/ (svc.kind = "ok" /\ FirstMalformed(svc.docs, 1) # 0)

\* C8 as stated: every failing call of GetLanguage reaches the caller as
\* APIError, with the status and body or the cause, and no language is
\* printed for a failing call.
C8_FailingCallPrintsNoLanguage ==
    /\ (Finished("rest") /\ sent["rest"] # <<>>) => (RestCallFailed <=> C8_FailingOutcome)
    /\ RestCallFailed =>
          (C8_FailureIsAPIError /\ CountEv(trace["rest"], "Language") = 0)

\* C8, amended: every failing call of GetLanguage reaches the caller as
\* APIError and as no other type, with the status and body or the cause; no
\* language is printed for a call that fails on a non-200 status, malformed
\* JSON or a transport failure, while a call that fails on an entry of the
\* documents array has printed the names of the entries before it.
C8_FailingCallRaisesAPIError ==
    /\ (Finished("rest") /\ sent["rest"] # <<>>) => (RestCallFailed <=> C8_FailingOutcome)
    /\ RestCallFailed =>
          /\ C8_FailureIsAPIError
          /\ CountEv(trace["rest"], "Language") =
                (IF svc.kind = "ok" THEN FirstMalformed(svc.docs, 1) - 1 ELSE 0)

\* GetLanguage has failed on a 503 response.
C8_Witness ==
    RestCallFailed /\ svc.kind = "status" /\ lastExc["rest"].status = 503

\* ------------------------------------------------------------------- C9
\* What a caller sees of variant v's iteration.
Observed(v) ==
    (IF "Language" \in Events(trace[v]) THEN {"language"} ELSE {})
    \cup (IF "Input error" \in Events(trace[v]) THEN {"input error"} ELSE {})
    \cup (IF sent[v] # <<>> /\ lastExc[v] # NoExc THEN {"client error"} ELSE {})
    \cup (IF sent[v] = <<>> /\ lastExc[v].type = "EOFError" THEN {"read error"} ELSE {})

SameObservations ==
    /\ Observed("rest") = Observed("sdk")
    /\ sent["rest"] = sent["sdk"]
    /\ pos["rest"] = pos["sdk"]
    /\ cfg["rest"] = cfg["sdk"]

BothFinished ==
    \A v \in Variants : Finished(v) \/ pc[v] = "raised"

\* After the loop test on the same line, both variants have returned or both
\* prompt again.
SameTermination ==
    (pos["rest"] = pos["sdk"] /\ \A v \in Variants : pc[v] \in {"input", "done"})
    => pc["rest"] = pc["sdk"]

\* C9 as stated: for the same configuration, lines and service outcome per
\* call (success with one document, success with zero documents, non-success
\* status, transport failure) the two variants show the same outcome per
\* line and invoke the service for the same lines.
C9_VariantsEquivalent ==
    (/\ BothFinished
     /\ \/ svc.kind \in {"unset", "status", "connect", "http"}
        \/ (svc.kind = "ok" /\ svc.docs \in {<<>>, <<"named">>}))
    => (SameObservations /\ SameTermination)

\* C9, amended: the same, for the service outcomes success with one
\* well-formed document, non-success status, malformed JSON and transport
\* failure; on a success with zero documents the variants differ.
C9_VariantsEquivalentOnOneDocument ==
    /\ (/\ BothFinished
        /\ \/ svc.kind \in {"unset", "status", "badjson", "connect", "http"}
           \/ (svc.kind = "ok" /\ svc.docs = <<"named">>))
       => SameObservations
    /\ SameTermination
    /\ (BothFinished /\ svc.kind = "ok" /\ svc.docs = <<>>)
       => (Observed("rest") = {} /\ Observed("sdk") = {"client error"})

\* Both variants have shown a client error for a non-200 status.
C9_Witness ==
    /\ \A v \in Variants : Finished(v) /\ Observed(v) = {"client error"}
    /\ svc.kind = "status"

\* ------------------------------------------------------------------ C10
\* C10: whenever a call of GetLanguage has finished, the connection it
\* opened has been closed, so none is open at a prompt and at most one is
\* open at any time.
C10_ConnectionClosedPerRequest ==
    /\ pc["rest"] \in {"loop", "input", "done"} => openConns = 0
    /\ openConns <= 1

====
